---- MODULE Spec2Model ----
(***************************************************************************)
(* Model of Source.cpp: a benchmark of predicate counting.                 *)
(*   Spec       one invocation of my_parallel_cnt, with its worker threads *)
(*   SpecTimer  one invocation of measure                                  *)
(*   SpecKs     the construction of the candidate thread counts Ks         *)
(*   SpecMain   one (N, predicate) iteration of main                       *)
(*   SpecSweep  the custom-K section of main, the counter's result free    *)
(* Vectors are 0-based functions where the code indexes them (partial),    *)
(* and sequences where the code only appends and iterates (th, t, Ks).     *)
(* All integers of the model are far below 2^31, so int and long long      *)
(* arithmetic is exact.                                                    *)
(***************************************************************************)
EXTENDS Integers, Sequences, FiniteSets

\* ------------------------------------------------------------------ bounds
MaxN == 3      \* longest workload drawn
MaxVal == 3    \* workload elements are 0..MaxVal
MaxK == 4      \* largest thread count drawn for one invocation
NegK == 1      \* thread counts are drawn from -NegK..MaxK

VARIABLES
    \* my_parallel_cnt(a, p, K)
    a,          \* the workload (const vector<int>&)
    pred,       \* the predicate, by name
    K,          \* the thread count
    pc,         \* position of the calling thread
    n,          \* int n = a.size()
    partial,    \* vector<long long> partial(K, 0), indexed 0..K-1
    th,         \* vector<thread> th: one record per started worker
    k,          \* the spawn loop's counter
    idx,        \* position of the join loop, then of the sum loop
    sum,        \* long long sum
    result,     \* the value returned
    acc,        \* history: the memory accesses of each worker, in order
    \* measure(fn, repeats)
    repeats,    \* the repeat count
    t,          \* vector<double> t: the samples, sorted before the return
    ri,         \* the loop counter i
    tpc,        \* position in measure
    mret,       \* the value returned
    fncalls,    \* history: the number of invocations of fn
    samples,    \* history: the samples in the order they were taken
    \* main, one (N, predicate) iteration
    hw,         \* max(1u, thread::hardware_concurrency())
    Ks,         \* vector<int> Ks
    kp,         \* the counter k of the loop of line 142
    mpc,        \* position in main
    res_seq, t_seq,
    res_par, t_par,
    res_par_unseq, t_par_unseq,
    bestT, bestK,
    ki,         \* position of the loop of line 150 in Ks
    out,        \* what was written to cout, one entry per line
    calls       \* history: the counting calls of main, one entry per call site visit

cntVars == <<a, pred, K, pc, n, partial, th, k, idx, sum, result, acc>>

timerVars == <<repeats, t, ri, tpc, mret, fncalls, samples>>

mainVars == <<hw, Ks, kp, mpc, res_seq, t_seq, res_par, t_par, res_par_unseq,
              t_par_unseq, bestT, bestK, ki, out, calls>>

vars == <<cntVars, timerVars, mainVars>>

\* The state of a component that is not running.
CntIdle ==
    /\ a = <<>> /\ pred = "light" /\ K = 0 /\ pc = "idle" /\ n = 0
    /\ partial = <<>> /\ th = <<>> /\ k = 0 /\ idx = 0 /\ sum = 0
    /\ result = 0 /\ acc = <<>>

TimerIdle ==
    /\ repeats = 0 /\ t = <<>> /\ ri = 0 /\ tpc = "idle" /\ mret = 0
    /\ fncalls = 0 /\ samples = <<>>

MainIdle ==
    /\ hw = 1 /\ Ks = <<>> /\ kp = 0 /\ mpc = "idle"
    /\ res_seq = 0 /\ t_seq = 0 /\ res_par = 0 /\ t_par = 0
    /\ res_par_unseq = 0 /\ t_par_unseq = 0 /\ bestT = 0 /\ bestK = 0
    /\ ki = 0 /\ out = <<>> /\ calls = <<>>

\* ------------------------------------------------------------- predicates
\* floor(sqrt(x) + ... + sqrt(x + 11)) as the double loop of pred_heavy
\* computes it, for x = 0..8.
HeavySum == <<25, 29, 31, 34, 36, 38, 40, 42, 43>>

pred_light(x) == (x % 2) = 0

pred_heavy(x) == (HeavySum[x + 1] % 2) = 1

Preds == {"light", "heavy"}

Holds(p, x) == IF p = "light" THEN pred_light(x) ELSE pred_heavy(x)

\* count_if over the half-open index range [lo, hi) of w (0-based).
RECURSIVE CountIf(_, _, _, _)
CountIf(w, lo, hi, p) ==
    IF lo >= hi THEN 0
    ELSE (IF Holds(p, w[lo + 1]) THEN 1 ELSE 0) + CountIf(w, lo + 1, hi, p)

seq_cnt(w, p) == CountIf(w, 0, Len(w), p)

\* ------------------------------------------------------- my_parallel_cnt
DegenerateDropsOne(threads) == threads < 1

\* line 52: the guard of the sequential fallback
Degenerate(threads) == threads <= 1

LBoundCeil(len, i, threads) == (len * i + threads - 1) \div threads

LBoundRounded(len, i, threads) == (2 * len * i + threads) \div (2 * threads)

\* line 59: int L = (1LL * n * k) / K
LBound(len, i, threads) == (len * i) \div threads

RBoundTruncated(len, i, threads) == (len \div threads) * (i + 1)

RBoundEven(len, i, threads) ==
    IF i + 1 = threads THEN len ELSE (len \div threads) * (i + 1)

\* line 60: int R = (1LL * n * (k + 1)) / K
RBound(len, i, threads) == (len * (i + 1)) \div threads

SlotShared(w) == 0

\* line 63: the slot of partial the worker assigns, by its captured k
Slot(w) == w.k

JoinNoWait(w) == TRUE

\* line 66: join returns once the thread has finished
Joinable(w) == w.st = "finished"

AliveWhileSpawning(w) == w.st = "running" /\ pc = "spawn"

\* A thread runs from its construction until its body ends or the process
\* does, wherever the calling thread is.
Alive(w) == w.st = "running" /\ pc # "terminated"

\* The accesses of the worker body, line 63: count_if reads a[L..R-1] in
\* order, then the result is assigned to one element of partial.
RECURSIVE Reads(_, _)
Reads(lo, hi) ==
    IF lo >= hi THEN <<>>
    ELSE <<[op |-> "read", obj |-> "a", at |-> lo]>> \o Reads(lo + 1, hi)

WorkerAccesses(w) ==
    Reads(w.L, w.R) \o <<[op |-> "write", obj |-> "partial", at |-> Slot(w)]>>

Values == 0..MaxVal

RECURSIVE SeqsUpTo(_, _)
SeqsUpTo(S, len) ==
    IF len = 0 THEN {<<>>}
    ELSE LET shorter == SeqsUpTo(S, len - 1)
         IN  shorter \cup {Append(s, x) : s \in {q \in shorter : Len(q) = len - 1}, x \in S}

Workloads == SeqsUpTo(Values, MaxN)

Scenario == <<1, 2, 3, 4, 5, 6>>

ScenarioKs == {1, 2, 3, 6}

\* The partition example: N = 8, K = 3.
Example == <<1, 2, 3, 4, 5, 6, 7, 8>>

ExampleK == 3

Calls ==
    {<<w, c>> : w \in Workloads, c \in (0 - NegK)..MaxK}
        \cup {<<Scenario, c>> : c \in ScenarioKs}
        \cup {<<Example, ExampleK>>}

Init ==
    /\ \E in \in Calls : a = in[1] /\ K = in[2]
    /\ pred \in Preds
    /\ pc = "call"
    /\ n = 0
    /\ partial = <<>>
    /\ th = <<>>
    /\ k = 0
    /\ idx = 0
    /\ sum = 0
    /\ result = 0
    /\ acc = <<>>
    /\ TimerIdle
    /\ MainIdle

\* lines 51-56: entry; the sequential fallback, or the buffers
Enter ==
    /\ pc = "call"
    /\ n' = Len(a)
    /\ IF Degenerate(K)
       THEN /\ result' = seq_cnt(a, pred)
            /\ pc' = "done"
            /\ UNCHANGED <<partial, acc>>
       ELSE /\ partial' = [i \in 0..(K - 1) |-> 0]
            /\ acc' = [i \in 0..(K - 1) |-> <<>>]
            /\ pc' = "spawn"
            /\ UNCHANGED result
    /\ UNCHANGED <<a, pred, K, th, k, idx, sum>>
    /\ UNCHANGED <<timerVars, mainVars>>

\* lines 58-65: one iteration of the spawn loop; the thread starts
SpawnWorker ==
    /\ pc = "spawn"
    /\ k < K
    /\ th' = Append(th, [L |-> LBound(n, k, K), R |-> RBound(n, k, K),
                         k |-> k, st |-> "running", joined |-> FALSE])
    /\ k' = k + 1
    /\ UNCHANGED <<a, pred, K, pc, n, partial, idx, sum, result, acc>>
    /\ UNCHANGED <<timerVars, mainVars>>

JoinAfterFailure(started) == "join"

\* lines 54-66: th.emplace_back (line 62) throws when the thread cannot be
\* created; my_parallel_cnt has no try block, so the exception leaves it
\* from inside the loop of line 58, before the join loop of line 66, and
\* unwinding destroys th with its started, joinable threads, for which
\* ~thread calls std::terminate.
AfterSpawnFailure(started) == "terminated"

\* line 62: the thread constructor throws (std::system_error); nothing in
\* the program catches it, so the process ends in std::terminate, with
\* the workers started so far neither joined nor detached.
SpawnFails ==
    /\ pc = "spawn"
    /\ k < K
    /\ pc' = AfterSpawnFailure(k)
    /\ UNCHANGED <<a, pred, K, n, partial, th, k, idx, sum, result, acc>>
    /\ UNCHANGED <<timerVars, mainVars>>

\* line 58: the spawn loop ends
SpawnDone ==
    /\ pc = "spawn"
    /\ ~(k < K)
    /\ pc' = "join"
    /\ idx' = 0
    /\ UNCHANGED <<a, pred, K, n, partial, th, k, sum, result, acc>>
    /\ UNCHANGED <<timerVars, mainVars>>

\* line 63: the body of worker i (th[i]), run by its own thread
Work(i) ==
    /\ Alive(th[i])
    /\ partial' = [partial EXCEPT ![Slot(th[i])] = CountIf(a, th[i].L, th[i].R, pred)]
    /\ acc' = [acc EXCEPT ![th[i].k] = @ \o WorkerAccesses(th[i])]
    /\ th' = [th EXCEPT ![i].st = "finished"]
    /\ UNCHANGED <<a, pred, K, pc, n, k, idx, sum, result>>
    /\ UNCHANGED <<timerVars, mainVars>>

\* line 66: one iteration of the join loop, blocking until th[idx] is done
Join ==
    /\ pc = "join"
    /\ idx < Len(th)
    /\ Joinable(th[idx + 1])
    /\ th' = [th EXCEPT ![idx + 1].joined = TRUE]
    /\ idx' = idx + 1
    /\ UNCHANGED <<a, pred, K, pc, n, partial, k, sum, result, acc>>
    /\ UNCHANGED <<timerVars, mainVars>>

\* lines 66-68: the join loop ends; long long sum = 0
JoinDone ==
    /\ pc = "join"
    /\ ~(idx < Len(th))
    /\ pc' = "sum"
    /\ idx' = 0
    /\ sum' = 0
    /\ UNCHANGED <<a, pred, K, n, partial, th, k, result, acc>>
    /\ UNCHANGED <<timerVars, mainVars>>

\* line 69: one iteration of the summation
SumStep ==
    /\ pc = "sum"
    /\ idx < K
    /\ sum' = sum + partial[idx]
    /\ idx' = idx + 1
    /\ UNCHANGED <<a, pred, K, pc, n, partial, th, k, result, acc>>
    /\ UNCHANGED <<timerVars, mainVars>>

\* line 70: return sum
Return ==
    /\ pc = "sum"
    /\ ~(idx < K)
    /\ result' = sum
    /\ pc' = "done"
    /\ UNCHANGED <<a, pred, K, n, partial, th, k, idx, sum, acc>>
    /\ UNCHANGED <<timerVars, mainVars>>

Next ==
    \/ Enter
    \/ SpawnWorker
    \/ SpawnFails
    \/ SpawnDone
    \/ \E i \in 1..Len(th) : Work(i)
    \/ Join
    \/ JoinDone
    \/ SumStep
    \/ Return

Spec == Init /\ [][Next]_vars

\* ------------------------------------------------ claims on the counter
Returned == pc = "done"

\* C1: a returned count equals the sequential count, for every workload,
\* predicate, K >= 1 and interleaving of the workers; "even" over
\* [1,2,3,4,5,6] gives 3 for K in {1,2,3,6}.
C1_ParallelEqualsSequential ==
    /\ (Returned /\ K >= 1) => result = seq_cnt(a, pred)
    /\ (Returned /\ a = Scenario /\ pred = "light" /\ K \in ScenarioKs) => result = 3

C1_Witness ==
    /\ Returned
    /\ a = Scenario /\ pred = "light" /\ K = 6
    /\ Len(th) = 6
    /\ result = 3

\* The indices of [0, len) that lie in the range [lo, hi).
InRange(i, lo, hi) == lo <= i /\ i < hi

\* C2: the K ranges start at 0, end at N, are contiguous (R_k = L_k+1),
\* have L_k <= R_k, and every index of [0, N) lies in exactly one of them,
\* also when K > N; the ranges the started workers hold are these ranges.
C2_PartitionPlan ==
    /\ K >= 1 =>
          /\ LBound(Len(a), 0, K) = 0
          /\ RBound(Len(a), K - 1, K) = Len(a)
          /\ \A i \in 0..(K - 2) : RBound(Len(a), i, K) = LBound(Len(a), i + 1, K)
          /\ \A i \in 0..(K - 1) : LBound(Len(a), i, K) <= RBound(Len(a), i, K)
          /\ \A e \in 0..(Len(a) - 1) :
                Cardinality({i \in 0..(K - 1) :
                    InRange(e, LBound(Len(a), i, K), RBound(Len(a), i, K))}) = 1
    /\ \A i \in 1..Len(th) :
          /\ th[i].L <= th[i].R
          /\ th[i].L = (IF i = 1 THEN 0 ELSE th[i - 1].R)
    /\ (K >= 2 /\ pc \in {"join", "sum", "done"}) =>
          /\ Len(th) = K
          /\ th[K].R = Len(a)
          /\ \A e \in 0..(Len(a) - 1) :
                Cardinality({i \in 1..K : InRange(e, th[i].L, th[i].R)}) = 1

C2_Witness ==
    /\ pc = "join"
    /\ K > Len(a)
    /\ \E i \in 1..Len(th) : th[i].L = th[i].R
    /\ \E i \in 1..Len(th) : th[i].L < th[i].R

AllJoined ==
    /\ Len(th) = K
    /\ \A i \in 1..K : th[i].st = "finished" /\ th[i].joined

\* C3: with K >= 2, the summation starts, and the invocation returns, only
\* after all K workers have finished and been joined; no worker is alive
\* after the return.
C3_JoinBeforeSum ==
    (~Degenerate(K) /\ pc \in {"sum", "done"}) =>
        /\ AllJoined
        /\ \A i \in 1..Len(th) : ~Alive(th[i])

C3_Witness ==
    /\ Returned
    /\ K >= 2
    /\ AllJoined

WritesOf(i) == SelectSeq(acc[i], LAMBDA x : x.op = "write")

\* C4: with K >= 2, worker k writes slot k of partial and nothing else, once
\* (exactly once when it has finished); no two workers write the same slot;
\* a worker reads only the workload, inside its own range.
C4_DisjointSlots ==
    \A i \in DOMAIN acc :
        /\ \A x \in 1..Len(acc[i]) :
              \/ acc[i][x] = [op |-> "write", obj |-> "partial", at |-> i]
              \/ /\ acc[i][x].op = "read"
                 /\ acc[i][x].obj = "a"
                 /\ InRange(acc[i][x].at, LBound(n, i, K), RBound(n, i, K))
        /\ Len(WritesOf(i)) <= 1
        /\ (i < Len(th) /\ th[i + 1].st = "finished") => Len(WritesOf(i)) = 1
        /\ \A j \in DOMAIN acc \ {i} :
              \A x \in 1..Len(WritesOf(i)), y \in 1..Len(WritesOf(j)) :
                  WritesOf(i)[x].at # WritesOf(j)[y].at

C4_Witness ==
    /\ Returned
    /\ K >= 3
    /\ \A i \in DOMAIN acc : Len(WritesOf(i)) = 1
    /\ \E i \in DOMAIN acc : Len(acc[i]) >= 2

\* C5: for K <= 1 (1, 0, negative) no worker thread is ever started and the
\* value returned is the sequential count.
C5_DegenerateIsSequential ==
    K <= 1 =>
        /\ Len(th) = 0
        /\ pc \notin {"spawn", "join", "sum", "terminated"}
        /\ Returned => result = seq_cnt(a, pred)

C5_Witness ==
    /\ Returned
    /\ K < 0
    /\ Len(th) = 0
    /\ result = Len(a)
    /\ result >= 2

\* ---------------------------------------------------------------- measure
MaxR == 4         \* repeat counts are drawn from 1..MaxR, and Repeats
MaxSample == 3    \* one timing is a duration in 1..MaxSample

\* line 17: int repeats = 7
Repeats == 7

\* chrono::duration<double, milli>: a wall-clock duration
Durations == 1..MaxSample

RECURSIVE InsertAsc(_, _)
InsertAsc(s, x) ==
    IF s = <<>> \/ x <= Head(s) THEN <<x>> \o s
    ELSE <<Head(s)>> \o InsertAsc(Tail(s), x)

\* line 25: sort(t.begin(), t.end())
RECURSIVE SortAsc(_)
SortAsc(s) == IF s = <<>> THEN <<>> ELSE InsertAsc(SortAsc(Tail(s)), Head(s))

MiddleLow(len) == (len - 1) \div 2

\* line 26: the index t.size() / 2
Middle(len) == len \div 2

InitTimer ==
    /\ repeats \in (1..MaxR) \cup {Repeats}
    /\ t = <<>>
    /\ ri = 0
    /\ tpc = "loop"
    /\ mret = 0
    /\ fncalls = 0
    /\ samples = <<>>
    /\ CntIdle
    /\ MainIdle

\* lines 19-24: one iteration; fn returns and its duration is recorded
TimerSample ==
    /\ tpc = "loop"
    /\ ri < repeats
    /\ \E d \in Durations :
          /\ t' = Append(t, d)
          /\ samples' = Append(samples, d)
    /\ fncalls' = fncalls + 1
    /\ ri' = ri + 1
    /\ UNCHANGED <<repeats, tpc, mret>>
    /\ UNCHANGED <<cntVars, mainVars>>

\* line 21: fn raises; measure catches nothing, the exception leaves it
TimerFnRaises ==
    /\ tpc = "loop"
    /\ ri < repeats
    /\ fncalls' = fncalls + 1
    /\ tpc' = "raised"
    /\ UNCHANGED <<repeats, t, ri, mret, samples>>
    /\ UNCHANGED <<cntVars, mainVars>>

\* lines 25-26: the loop is over; sort and return the middle element
TimerReturn ==
    /\ tpc = "loop"
    /\ ~(ri < repeats)
    /\ t' = SortAsc(t)
    /\ mret' = t'[Middle(Len(t')) + 1]
    /\ tpc' = "done"
    /\ UNCHANGED <<repeats, ri, fncalls, samples>>
    /\ UNCHANGED <<cntVars, mainVars>>

NextTimer ==
    \/ TimerSample
    \/ TimerFnRaises
    \/ TimerReturn

SpecTimer == InitTimer /\ [][NextTimer]_vars

SampleSet == {samples[j] : j \in 1..Len(samples)}

\* C9: a returning measure has invoked fn exactly R times, and the value it
\* returns is the element at index floor(R/2) of the R samples in ascending
\* order: at most floor(R/2) samples are smaller and more than floor(R/2)
\* are not larger; it is one of the samples, between their minimum and
\* maximum.
C9_MedianOfSamples ==
    tpc = "done" =>
        /\ fncalls = repeats
        /\ Len(samples) = repeats
        /\ Cardinality({j \in 1..Len(samples) : samples[j] < mret}) <= repeats \div 2
        /\ Cardinality({j \in 1..Len(samples) : samples[j] <= mret}) > repeats \div 2
        /\ mret \in SampleSet
        /\ \E lo \in SampleSet : \A x \in SampleSet : lo <= x /\ lo <= mret
        /\ \E hi \in SampleSet : \A x \in SampleSet : x <= hi /\ mret <= hi

C9_Witness ==
    /\ tpc = "done"
    /\ repeats = Repeats
    /\ samples # t
    /\ \E x \in SampleSet : x < mret
    /\ \E x \in SampleSet : x > mret

\* ------------------------------------------------------------------- main
MaxT == 2         \* a median of SpecSweep is a duration in 1..MaxT
MaxMainT == 1     \* a median of SpecMain is a duration in 1..MaxMainT
MainHw == 6       \* hardware_concurrency() in SpecMain (or 0) and SpecSweep
MaxHw == 64       \* hardware_concurrency() is in 0..MaxHw in SpecKs

\* line 117: double t_par = -1, t_par_unseq = -1
NoTime == -1

\* line 147: double bestT = 1e300, which is above every duration; 1e300 is
\* no integer TLC can hold, so a number above every duration of the model
\* stands for it.
BestTInit == 1000000

Times == 1..MaxT

MainTimes == 1..MaxMainT

\* One line of cout; K and d are 0 where the line has none.
Line(kind, threads, d) == [kind |-> kind, K |-> threads, d |-> d]

\* One visit of a call site of a counting function: the function, the K
\* passed (0 where there is none), the result of the first call (0 when that
\* call raised), where the visit raised ("no", "first": the first call,
\* "measure": a call inside measure), and the number of invocations made
\* when it ended normally.
Call(fn, threads, res, raised, cnt) ==
    [fn |-> fn, K |-> threads, res |-> res, raised |-> raised, n |-> cnt]

\* The lines printed of one kind, and the visits of one function.
LinesOf(kind) == SelectSeq(out, LAMBDA l : l.kind = kind)

CallsOf(fn) == SelectSeq(calls, LAMBDA c : c.fn = fn)

\* The value my_parallel_cnt returns (lines 48-71), the workers' steps taken
\* as one: the K <= 1 fallback, or the sum of the K partial counts.
RECURSIVE SumOfPartials(_, _, _, _)
SumOfPartials(w, p, threads, upto) ==
    IF upto = 0 THEN 0
    ELSE SumOfPartials(w, p, threads, upto - 1)
         + CountIf(w, LBound(Len(w), upto - 1, threads),
                      RBound(Len(w), upto - 1, threads), p)

my_parallel_cnt(w, p, threads) ==
    IF Degenerate(threads) THEN seq_cnt(w, p)
    ELSE SumOfPartials(w, p, threads, threads)

\* std::unique on a sorted vector, with the erase of line 145
RECURSIVE Unique(_)
Unique(s) ==
    IF Len(s) <= 1 THEN s
    ELSE IF s[1] = s[2] THEN Unique(Tail(s))
    ELSE <<s[1]>> \o Unique(Tail(s))

KeepDuplicates(s) == SortAsc(s)

\* lines 144-145: sort, then erase the duplicates
SortUnique(s) == Unique(SortAsc(s))

BetterOrEqual(d, best) == d <= best

\* line 153: t < bestT
Better(d, best) == d < best

MismatchBelow(res, base) == res < base

\* line 156: res != res_seq
Mismatch(res, base) == res # base

CatchSkipsNext(section) == "ks"

\* lines 125-127, 134-136: where control continues after a catch block
AfterCatch(section) == IF section = "par" THEN "par_unseq" ELSE "ks"

\* What a call whose result is left open may return: the count, or another
\* value in 0..N.
OpenCounts(w, p) == {seq_cnt(w, p), (seq_cnt(w, p) + 1) % (Len(w) + 1)}

MainWorkloads == {Scenario}

InitMain ==
    /\ a \in MainWorkloads
    /\ pred \in Preds
    /\ K = 0 /\ pc = "idle" /\ n = 0 /\ partial = <<>> /\ th = <<>>
    /\ k = 0 /\ idx = 0 /\ sum = 0 /\ result = 0 /\ acc = <<>>
    /\ TimerIdle
    /\ hw = 1 /\ Ks = <<>> /\ kp = 0
    /\ mpc = "seq"
    /\ res_seq = 0 /\ t_seq = 0 /\ res_par = 0 /\ t_par = 0
    /\ res_par_unseq = 0 /\ t_par_unseq = 0 /\ bestT = 0 /\ bestK = 0
    /\ ki = 0
    /\ out = <<Line("predicate " \o pred, 0, 0)>>
    /\ calls = <<>>

\* lines 112-118: the sequential baseline, its time, and the defaults of
\* the policies' variables
MainSeq ==
    /\ mpc = "seq"
    /\ res_seq' = seq_cnt(a, pred)
    /\ \E d \in MainTimes :
          /\ t_seq' = d
          /\ out' = Append(out, Line("sequential", 0, d))
    /\ calls' = Append(calls, Call("seq", 0, seq_cnt(a, pred), "no", 1 + Repeats))
    /\ t_par' = NoTime
    /\ t_par_unseq' = NoTime
    /\ res_par' = res_seq'
    /\ res_par_unseq' = res_seq'
    /\ mpc' = "par"
    /\ UNCHANGED <<hw, Ks, kp, bestT, bestK, ki>>
    /\ UNCHANGED <<cntVars, timerVars>>

\* lines 120-124: par_cnt returns, measure returns, the time is printed
ParOk ==
    /\ mpc = "par"
    /\ \E v \in OpenCounts(a, pred), d \in MainTimes :
          /\ res_par' = v
          /\ t_par' = d
          /\ out' = Append(out, Line("par", 0, d))
          /\ calls' = Append(calls, Call("par", 0, v, "no", 1 + Repeats))
    /\ mpc' = "par_unseq"
    /\ UNCHANGED <<hw, Ks, kp, res_seq, t_seq, res_par_unseq, t_par_unseq, bestT, bestK, ki>>
    /\ UNCHANGED <<cntVars, timerVars>>

\* lines 121, 125-127: the first par_cnt call raises
ParFirstRaises ==
    /\ mpc = "par"
    /\ out' = Append(out, Line("par policy NOT supported", 0, 0))
    /\ calls' = Append(calls, Call("par", 0, 0, "first", 0))
    /\ mpc' = AfterCatch("par")
    /\ UNCHANGED <<hw, Ks, kp, res_seq, t_seq, res_par, t_par, res_par_unseq,
                   t_par_unseq, bestT, bestK, ki>>
    /\ UNCHANGED <<cntVars, timerVars>>

\* lines 121-122, 125-127: par_cnt returns, then raises inside measure
ParMeasureRaises ==
    /\ mpc = "par"
    /\ \E v \in OpenCounts(a, pred) :
          /\ res_par' = v
          /\ calls' = Append(calls, Call("par", 0, v, "measure", 0))
    /\ out' = Append(out, Line("par policy NOT supported", 0, 0))
    /\ mpc' = AfterCatch("par")
    /\ UNCHANGED <<hw, Ks, kp, res_seq, t_seq, t_par, res_par_unseq,
                   t_par_unseq, bestT, bestK, ki>>
    /\ UNCHANGED <<cntVars, timerVars>>

\* lines 129-133
ParUnseqOk ==
    /\ mpc = "par_unseq"
    /\ \E v \in OpenCounts(a, pred), d \in MainTimes :
          /\ res_par_unseq' = v
          /\ t_par_unseq' = d
          /\ out' = Append(out, Line("par_unseq", 0, d))
          /\ calls' = Append(calls, Call("par_unseq", 0, v, "no", 1 + Repeats))
    /\ mpc' = "ks"
    /\ UNCHANGED <<hw, Ks, kp, res_seq, t_seq, res_par, t_par, bestT, bestK, ki>>
    /\ UNCHANGED <<cntVars, timerVars>>

\* lines 130, 134-136
ParUnseqFirstRaises ==
    /\ mpc = "par_unseq"
    /\ out' = Append(out, Line("par_unseq policy NOT supported", 0, 0))
    /\ calls' = Append(calls, Call("par_unseq", 0, 0, "first", 0))
    /\ mpc' = AfterCatch("par_unseq")
    /\ UNCHANGED <<hw, Ks, kp, res_seq, t_seq, res_par, t_par, res_par_unseq,
                   t_par_unseq, bestT, bestK, ki>>
    /\ UNCHANGED <<cntVars, timerVars>>

\* lines 130-131, 134-136
ParUnseqMeasureRaises ==
    /\ mpc = "par_unseq"
    /\ \E v \in OpenCounts(a, pred) :
          /\ res_par_unseq' = v
          /\ calls' = Append(calls, Call("par_unseq", 0, v, "measure", 0))
    /\ out' = Append(out, Line("par_unseq policy NOT supported", 0, 0))
    /\ mpc' = AfterCatch("par_unseq")
    /\ UNCHANGED <<hw, Ks, kp, res_seq, t_seq, res_par, t_par, t_par_unseq,
                   bestT, bestK, ki>>
    /\ UNCHANGED <<cntVars, timerVars>>

\* lines 139-141: hardware_concurrency() returns hc
KsStart(hc) ==
    /\ mpc = "ks"
    /\ out' = Append(out, Line("custom parallel K", 0, 0))
    /\ hw' = IF 1 > hc THEN 1 ELSE hc
    /\ Ks' = <<1, 2, 4, 8, 16, 32, 64>>
    /\ kp' = 2
    /\ mpc' = "kspush"
    /\ UNCHANGED <<res_seq, t_seq, res_par, t_par, res_par_unseq, t_par_unseq,
                   bestT, bestK, ki, calls>>
    /\ UNCHANGED <<cntVars, timerVars>>

\* line 142: one iteration of the loop
KsPush ==
    /\ mpc = "kspush"
    /\ kp <= hw * 2
    /\ Ks' = Append(Ks, kp)
    /\ kp' = kp * 2
    /\ UNCHANGED <<hw, mpc, res_seq, t_seq, res_par, t_par, res_par_unseq,
                   t_par_unseq, bestT, bestK, ki, out, calls>>
    /\ UNCHANGED <<cntVars, timerVars>>

\* lines 142-148: the loop ends; sort, erase duplicates, reset the best
KsSortUnique ==
    /\ mpc = "kspush"
    /\ ~(kp <= hw * 2)
    /\ Ks' = SortUnique(Ks)
    /\ bestT' = BestTInit
    /\ bestK' = 1
    /\ ki' = 0
    /\ mpc' = "sweep"
    /\ UNCHANGED <<hw, kp, res_seq, t_seq, res_par, t_par, res_par_unseq,
                   t_par_unseq, out, calls>>
    /\ UNCHANGED <<cntVars, timerVars>>

UpdatesBestIfCorrect(res, d, best) == Better(d, best) /\ ~Mismatch(res, res_seq)

\* line 153: the update of bestT and bestK is decided by the time alone; it
\* stands before the comparison of line 155 and does not read res
UpdatesBest(res, d, best) == Better(d, best)

\* lines 150-161: one iteration of the sweep, for K = Ks[ki]; the first
\* call returns res and measure returns d
SweepIter(res, d) ==
    /\ bestT' = (IF UpdatesBest(res, d, bestT) THEN d ELSE bestT)
    /\ bestK' = (IF UpdatesBest(res, d, bestT) THEN Ks[ki + 1] ELSE bestK)
    /\ out' = out
                \o (IF Mismatch(res, res_seq)
                    THEN <<Line("ERROR", Ks[ki + 1], 0)>> ELSE <<>>)
                \o <<Line("K", Ks[ki + 1], d)>>
    /\ calls' = Append(calls, Call("my_parallel_cnt", Ks[ki + 1], res, "no", 1 + Repeats))
    /\ ki' = ki + 1
    /\ UNCHANGED <<hw, Ks, kp, mpc, res_seq, t_seq, res_par, t_par,
                   res_par_unseq, t_par_unseq>>
    /\ UNCHANGED <<cntVars, timerVars>>

\* The sweep iteration with the counter returning what its code computes.
SweepCounted ==
    /\ mpc = "sweep"
    /\ ki < Len(Ks)
    /\ \E res \in {my_parallel_cnt(a, pred, Ks[ki + 1])}, d \in MainTimes :
          SweepIter(res, d)

\* The sweep iteration with the result of the first call left open.
SweepAnyResult ==
    /\ mpc = "sweep"
    /\ ki < Len(Ks)
    /\ \E res \in OpenCounts(a, pred), d \in Times : SweepIter(res, d)

CaughtInLoop(site) == "sweep"

\* lines 150-153: the call of line 151 and the measure of line 152 stand in
\* no try block, in the loop or around it, and measure (lines 17-27) and
\* my_parallel_cnt (lines 48-71) have none either: an exception thrown at
\* either site leaves main and the process terminates.
AfterSweepFailure(site) == "terminated"

\* The exception of a failed thread creation leaves my_parallel_cnt and,
\* line 151 or 152 being in no try block, main: the process terminates.
SweepRaise(res, where) ==
    /\ mpc = "sweep"
    /\ ki < Len(Ks)
    /\ ~Degenerate(Ks[ki + 1])
    /\ calls' = Append(calls, Call("my_parallel_cnt", Ks[ki + 1], res, where, 0))
    /\ mpc' = AfterSweepFailure(where)
    /\ UNCHANGED <<hw, Ks, kp, res_seq, t_seq, res_par, t_par, res_par_unseq,
                   t_par_unseq, bestT, bestK, ki, out>>
    /\ UNCHANGED <<cntVars, timerVars>>

\* line 151: the first call fails to create a thread
SweepCallRaises == SweepRaise(0, "first")

\* line 152: a call inside measure fails to create a thread
SweepMeasureRaises ==
    /\ mpc = "sweep"
    /\ ki < Len(Ks)
    /\ \E res \in {my_parallel_cnt(a, pred, Ks[ki + 1])} : SweepRaise(res, "measure")

\* line 152, the result of the first call left open
SweepMeasureRaisesAny ==
    \E res \in OpenCounts(a, pred) : SweepRaise(res, "measure")

\* lines 150, 163-165: the sweep is over; the best K is printed
SweepDone ==
    /\ mpc = "sweep"
    /\ ~(ki < Len(Ks))
    /\ out' = Append(out, Line("BEST", bestK, bestT))
    /\ mpc' = "done"
    /\ UNCHANGED <<hw, Ks, kp, res_seq, t_seq, res_par, t_par, res_par_unseq,
                   t_par_unseq, bestT, bestK, ki, calls>>
    /\ UNCHANGED <<cntVars, timerVars>>

NextMain ==
    \/ MainSeq
    \/ ParOk
    \/ ParFirstRaises
    \/ ParMeasureRaises
    \/ ParUnseqOk
    \/ ParUnseqFirstRaises
    \/ ParUnseqMeasureRaises
    \/ \E hc \in {0, MainHw} : KsStart(hc)
    \/ KsPush
    \/ KsSortUnique
    \/ SweepCounted
    \/ SweepCallRaises
    \/ SweepMeasureRaises
    \/ SweepDone

SpecMain == InitMain /\ [][NextMain]_vars

\* main at line 139, in the iteration of the light predicate, after a
\* sequential median of 1 and two policies that are not supported.
InitSweep ==
    /\ a \in MainWorkloads
    /\ pred = "light"
    /\ K = 0 /\ pc = "idle" /\ n = 0 /\ partial = <<>> /\ th = <<>>
    /\ k = 0 /\ idx = 0 /\ sum = 0 /\ result = 0 /\ acc = <<>>
    /\ TimerIdle
    /\ hw = 1 /\ Ks = <<>> /\ kp = 0
    /\ mpc = "ks"
    /\ res_seq = seq_cnt(a, pred) /\ t_seq = 1
    /\ res_par = res_seq /\ t_par = NoTime
    /\ res_par_unseq = res_seq /\ t_par_unseq = NoTime
    /\ bestT = 0 /\ bestK = 0 /\ ki = 0
    /\ out = <<Line("predicate " \o pred, 0, 0), Line("sequential", 0, 1),
               Line("par policy NOT supported", 0, 0),
               Line("par_unseq policy NOT supported", 0, 0)>>
    /\ calls = <<Call("seq", 0, res_seq, "no", 1 + Repeats),
                 Call("par", 0, 0, "first", 0),
                 Call("par_unseq", 0, 0, "first", 0)>>

NextSweep ==
    \/ KsStart(MainHw)
    \/ KsPush
    \/ KsSortUnique
    \/ SweepAnyResult
    \/ SweepCallRaises
    \/ SweepMeasureRaisesAny
    \/ SweepDone

SpecSweep == InitSweep /\ [][NextSweep]_vars

\* ------------------------------------------ one sweep iteration in steps
\* The candidates whose iteration is followed call by call.
IterKs == {1, 2}

\* The duration of a timed call; it plays no part in how many calls are
\* made or in which result is compared, so every call takes one unit.
IterDurations == {1}

CheckedLastTimed(first, timed) == timed[Len(timed)]

\* lines 151, 155: the value compared with res_seq is res, the result of the
\* call of line 151; the lambda of line 152 returns void, so the results of
\* the calls measure makes reach nothing
CheckedResult(first, timed) == first

\* line 151 and the entry of measure (line 17, repeats left at its
\* default): the first call returns res
IterFirst ==
    /\ mpc = "sweep"
    /\ ki < Len(Ks)
    /\ Ks[ki + 1] \in IterKs
    /\ \E res \in OpenCounts(a, pred) :
          calls' = Append(calls, Call("my_parallel_cnt", Ks[ki + 1], res, "no", 1))
    /\ mpc' = "measure"
    /\ repeats' = Repeats
    /\ t' = <<>>
    /\ ri' = 0
    /\ tpc' = "loop"
    /\ fncalls' = 0
    /\ samples' = <<>>
    /\ UNCHANGED <<mret, hw, Ks, kp, res_seq, t_seq, res_par, t_par,
                   res_par_unseq, t_par_unseq, bestT, bestK, ki, out>>
    /\ UNCHANGED cntVars

\* lines 19-24 with fn the lambda of line 152: one more call of
\* my_parallel_cnt, returning tres, which the lambda drops
IterTimed ==
    /\ mpc = "measure"
    /\ tpc = "loop"
    /\ ri < repeats
    /\ \E d \in IterDurations :
          /\ t' = Append(t, d)
          /\ samples' = Append(samples, d)
    /\ \E tres \in OpenCounts(a, pred) :
          calls' = Append(calls, Call("timed", Ks[ki + 1], tres, "no", 1))
    /\ fncalls' = fncalls + 1
    /\ ri' = ri + 1
    /\ UNCHANGED <<repeats, tpc, mret, hw, Ks, kp, mpc, res_seq, t_seq, res_par,
                   t_par, res_par_unseq, t_par_unseq, bestT, bestK, ki, out>>
    /\ UNCHANGED cntVars

\* lines 25-26 and 153-158: measure returns the median; the best is
\* updated, the result of line 151 is compared, the lines are printed
IterEnd ==
    /\ mpc = "measure"
    /\ tpc = "loop"
    /\ ~(ri < repeats)
    /\ t' = SortAsc(t)
    /\ mret' = t'[Middle(Len(t')) + 1]
    /\ tpc' = "done"
    /\ LET made == CallsOf("my_parallel_cnt")
           timed == SelectSeq(calls, LAMBDA c : c.fn = "timed" /\ c.K = Ks[ki + 1])
           res == CheckedResult(made[Len(made)].res, [j \in 1..Len(timed) |-> timed[j].res])
       IN  /\ bestT' = (IF UpdatesBest(res, mret', bestT) THEN mret' ELSE bestT)
           /\ bestK' = (IF UpdatesBest(res, mret', bestT) THEN Ks[ki + 1] ELSE bestK)
           /\ out' = out
                       \o (IF Mismatch(res, res_seq)
                           THEN <<Line("ERROR", Ks[ki + 1], 0)>> ELSE <<>>)
                       \o <<Line("K", Ks[ki + 1], mret')>>
    /\ ki' = ki + 1
    /\ mpc' = "sweep"
    /\ UNCHANGED <<repeats, ri, fncalls, samples, hw, Ks, kp, res_seq, t_seq,
                   res_par, t_par, res_par_unseq, t_par_unseq, calls>>
    /\ UNCHANGED cntVars

NextIter ==
    \/ KsStart(MainHw)
    \/ KsPush
    \/ KsSortUnique
    \/ IterFirst
    \/ IterTimed
    \/ IterEnd

SpecIter == InitSweep /\ [][NextIter]_vars

\* --------------------------------------------- the fork-join, scheduled
\* The invocations followed under fair scheduling: the 6-element scenario
\* with its K, and the partition example.
LiveCalls == {<<Scenario, c>> : c \in ScenarioKs} \cup {<<Example, ExampleK>>}

LiveWorkers == UNION {1..in[2] : in \in LiveCalls}

InitLive ==
    \/ /\ Init
       /\ <<a, K>> \in LiveCalls
    \/ InitSweep

\* The sweep with my_parallel_cnt returning what its code computes.
NextLive ==
    \/ Next
    \/ KsStart(MainHw)
    \/ KsPush
    \/ KsSortUnique
    \/ SweepCounted
    \/ SweepCallRaises
    \/ SweepMeasureRaises
    \/ SweepDone

\* Worker i, once started, gets to run.
WorkOf(i) == i <= Len(th) /\ Work(i)

\* The scheduler runs every thread that can take a step: each started
\* worker (lines 62-64) and the calling thread, in my_parallel_cnt and in
\* the loop of the sweep (lines 150-165). A thread creation that can fail
\* need not fail: no fairness on SpawnFails, SweepCallRaises,
\* SweepMeasureRaises.
Fairness ==
    /\ \A i \in LiveWorkers : WF_vars(WorkOf(i))
    /\ WF_vars(Enter)
    /\ WF_vars(SpawnWorker)
    /\ WF_vars(SpawnDone)
    /\ WF_vars(Join)
    /\ WF_vars(JoinDone)
    /\ WF_vars(SumStep)
    /\ WF_vars(Return)
    /\ WF_vars(SweepCounted)
    /\ WF_vars(SweepDone)

SpecLive == InitLive /\ [][NextLive]_vars /\ Fairness

NextKs ==
    \/ \E hc \in 0..MaxHw : KsStart(hc)
    \/ KsPush
    \/ KsSortUnique

SpecKs == InitSweep /\ [][NextKs]_vars

\* The value the interleaved invocation of Spec returns is the value of
\* my_parallel_cnt, which SpecMain uses for the call as a whole.
CounterResultIsFunction == Returned => result = my_parallel_cnt(a, pred, K)

\* ------------------------------------------------- claims on the sweep
StrictlyAscending(s) == \A j \in 1..(Len(s) - 1) : s[j] < s[j + 1]

\* lines 147-153 as a fold over the observations <<K, time>> of a sweep
RECURSIVE BestOf(_, _, _)
BestOf(obs, bT, bK) ==
    IF obs = <<>> THEN <<bK, bT>>
    ELSE IF Better(Head(obs)[2], bT)
         THEN BestOf(Tail(obs), Head(obs)[2], Head(obs)[1])
         ELSE BestOf(Tail(obs), bT, bK)

Observations ==
    LET kl == LinesOf("K")
    IN  [j \in 1..Len(kl) |-> <<kl[j].K, kl[j].d>>]

\* C6: after the sweep bestT is the minimum of the measured times and bestK
\* the earliest K of the sweep with that time; bestK and bestT are the fold
\* of "update on strictly less" over the observations, which selects K = 4,
\* time 12 from (1,50), (2,30), (4,12), (8,15).
C6_BestIsFirstMinimum ==
    LET obs == Observations
    IN  /\ mpc = "done" =>
              /\ obs # <<>>
              /\ \A j \in 1..Len(obs) : bestT <= obs[j][2]
              /\ \E j \in 1..Len(obs) :
                    /\ obs[j] = <<bestK, bestT>>
                    /\ \A e \in 1..(j - 1) : obs[e][2] > bestT
        /\ mpc \in {"sweep", "done"} => <<bestK, bestT>> = BestOf(obs, BestTInit, 1)
        /\ BestOf(<<<<1, 50>>, <<2, 30>>, <<4, 12>>, <<8, 15>>>>, BestTInit, 1) = <<4, 12>>

C6_Witness ==
    /\ mpc = "done"
    /\ bestK = 4
    /\ Observations[1][2] > bestT
    /\ \E j \in 1..Len(Observations) : Observations[j][1] > bestK /\ Observations[j][2] = bestT

\* C7: a mismatch never ends the sweep: the K evaluated so far are the first
\* ki candidates, each once and in ascending order, each with its timing
\* line; an ERROR line is printed for exactly the K whose result differs
\* from the baseline; the sweep ends with every candidate evaluated, and
\* the process terminates early only by an exception, never by a mismatch.
C7_MismatchDoesNotAbort ==
    LET made == CallsOf("my_parallel_cnt")
        timed == LinesOf("K")
        errors == LinesOf("ERROR")
    IN  /\ mpc \in {"sweep", "done"} =>
              /\ StrictlyAscending(Ks)
              /\ Len(made) = ki
              /\ Len(timed) = ki
              /\ \A j \in 1..ki :
                    /\ made[j].K = Ks[j]
                    /\ timed[j].K = Ks[j]
                    /\ (made[j].res # res_seq)
                         <=> (\E e \in 1..Len(errors) : errors[e].K = Ks[j])
              /\ Len(errors) = Cardinality({j \in 1..ki : made[j].res # res_seq})
        /\ mpc = "done" => ki = Len(Ks)
        /\ mpc = "terminated" => calls[Len(calls)].raised # "no"

C7_Witness ==
    /\ mpc = "done"
    /\ Len(LinesOf("K")) = Len(Ks)
    /\ CallsOf("my_parallel_cnt")[1].res # res_seq
    /\ CallsOf("my_parallel_cnt")[2].res = res_seq
    /\ CallsOf("my_parallel_cnt")[Len(Ks)].res # res_seq
    /\ Len(LinesOf("ERROR")) = 2

\* ---------------------------------------------------- claims on the Ks
RECURSIVE IsPowerOfTwo(_)
IsPowerOfTwo(x) == x = 1 \/ (x > 1 /\ x % 2 = 0 /\ IsPowerOfTwo(x \div 2))

KsSet == {Ks[j] : j \in 1..Len(Ks)}

\* C8 as claimed: the candidates are strictly ascending and hold 1, 2, 4,
\* 8, 16, 32, 64, hw and 2 * hw, for every hw >= 1.
C8_HoldsHwAndTwiceHw ==
    mpc = "sweep" =>
        /\ StrictlyAscending(Ks)
        /\ {1, 2, 4, 8, 16, 32, 64} \subseteq KsSet
        /\ hw \in KsSet
        /\ 2 * hw \in KsSet

\* C8, amended: the candidates are strictly ascending and hold 1, 2, 4, 8,
\* 16, 32, 64 and every power of two from 2 up to 2 * hw; hw and 2 * hw are
\* candidates exactly when hw is a power of two.
C8_HoldsPowersOfTwo ==
    mpc = "sweep" =>
        /\ StrictlyAscending(Ks)
        /\ {1, 2, 4, 8, 16, 32, 64} \subseteq KsSet
        /\ \A x \in 2..(2 * hw) : IsPowerOfTwo(x) => x \in KsSet
        /\ IsPowerOfTwo(hw) <=> hw \in KsSet
        /\ IsPowerOfTwo(hw) <=> 2 * hw \in KsSet

C8_Witness ==
    /\ mpc = "sweep"
    /\ hw = 6
    /\ 8 \in KsSet
    /\ 6 \notin KsSet
    /\ 12 \notin KsSet
    /\ Len(Ks) = 7

\* ----------------------------------------------- claims on the policies
Policies == {"par", "par_unseq"}

Raised(fn) == \E j \in 1..Len(calls) : calls[j].fn = fn /\ calls[j].raised # "no"

Attempted(fn) == \E j \in 1..Len(calls) : calls[j].fn = fn

TimeOf(fn) == IF fn = "par" THEN t_par ELSE t_par_unseq

\* C10: a policy call that raises, first or inside measure, is caught where
\* it was made: "NOT supported" is printed for it and no time; the process
\* does not terminate by it; the other policy is attempted all the same;
\* the baseline stays the sequential count; and a sweep that ends has
\* evaluated every candidate K.
C10_UnsupportedIsCaught ==
    /\ \A fn \in Policies : Raised(fn) =>
          /\ Len(LinesOf(fn \o " policy NOT supported")) = 1
          /\ LinesOf(fn) = <<>>
          /\ TimeOf(fn) = NoTime
          /\ res_seq = seq_cnt(a, pred)
          /\ mpc # fn
          /\ mpc = "terminated" => calls[Len(calls)].fn = "my_parallel_cnt"
    /\ mpc \notin {"seq", "par", "par_unseq"} => \A fn \in Policies : Attempted(fn)
    /\ mpc = "done" =>
          /\ res_seq = seq_cnt(a, pred)
          /\ Len(Ks) >= 7
          /\ [j \in 1..Len(Ks) |-> LinesOf("K")[j].K] = Ks
          /\ [j \in 1..Len(Ks) |-> CallsOf("my_parallel_cnt")[j].K] = Ks

C10_Witness ==
    /\ mpc = "done"
    /\ \E j \in 1..Len(calls) : calls[j].fn = "par" /\ calls[j].raised = "first"
    /\ \E j \in 1..Len(calls) : calls[j].fn = "par_unseq" /\ calls[j].raised = "measure"
    /\ Len(LinesOf("K")) = Len(Ks)
    /\ LinesOf("BEST") # <<>>

\* line 118 and lines 121, 130: the variable that holds a policy's result
ResOf(fn) == IF fn = "par" THEN res_par ELSE res_par_unseq

\* A policy call that returned, with its time measured.
Succeeded(fn) ==
    \E j \in 1..Len(calls) : calls[j].fn = fn /\ calls[j].raised = "no"

\* C11: a policy call that succeeded with a result other than the
\* sequential baseline is detected, that is an ERROR line is printed once
\* its section is over; and after a policy call that failed, first or
\* inside measure, the policy's result variable holds the baseline.
C11_PolicyResultChecked ==
    \A fn \in Policies :
        /\ (Succeeded(fn) /\ ResOf(fn) # res_seq /\ mpc # fn)
              => LinesOf("ERROR") # <<>>
        /\ Raised(fn) => ResOf(fn) = res_seq

\* ------------------------------------- claims on thread-creation failure
\* C12: a thread-creation failure in an invocation of my_parallel_cnt, at
\* the call of line 151 or inside measure at line 152, is caught and
\* retried by nobody: the failed invocation is the last one ever made, the
\* process has terminated at the K it was made for, no timing or ERROR line
\* and no count is printed for that K, bestT and bestK are those of the K
\* completed before it, and neither a later K nor the best K is reported.
C12_SpawnFailureIsFatal ==
    LET made == CallsOf("my_parallel_cnt")
        timed == LinesOf("K")
    IN  \A j \in 1..Len(made) : made[j].raised # "no" =>
            /\ j = Len(made)
            /\ calls[Len(calls)] = made[j]
            /\ mpc = "terminated"
            /\ j = ki + 1
            /\ made[j].K = Ks[ki + 1]
            /\ Len(timed) = ki
            /\ \A e \in 1..Len(timed) : timed[e].K < made[j].K
            /\ \A e \in 1..Len(out) :
                  out[e].kind \in {"K", "ERROR"} => out[e].K # made[j].K
            /\ <<bestK, bestT>> = BestOf(Observations, BestTInit, 1)
            /\ LinesOf("BEST") = <<>>

C12_Witness ==
    /\ mpc = "terminated"
    /\ ki = 2
    /\ calls[Len(calls)].raised = "first"
    /\ calls[Len(calls)].K = 4
    /\ bestK = 2
    /\ Len(LinesOf("K")) = 2

\* ---------------------------------------------- claims on the boundaries
\* x is the floor of num / den, stated without the division of the code.
IsFloor(x, num, den) == den * x <= num /\ num < den * (x + 1)

\* C13: for every N >= 0, K >= 2 and k in [0, K), the boundaries a started
\* worker holds are L_k = floor(N*k/K) and R_k = floor(N*(k+1)/K), and so
\* are the boundaries the code computes for every k; for N = 8, K = 3 the
\* ranges are [0,2), [2,5), [5,8), of sizes 2, 3, 3.
C13_BoundariesAreFloors ==
    /\ \A i \in 1..Len(th) :
          /\ th[i].k = i - 1
          /\ IsFloor(th[i].L, Len(a) * th[i].k, K)
          /\ IsFloor(th[i].R, Len(a) * (th[i].k + 1), K)
    /\ K >= 2 =>
          \A i \in 0..(K - 1) :
              /\ IsFloor(LBound(Len(a), i, K), Len(a) * i, K)
              /\ IsFloor(RBound(Len(a), i, K), Len(a) * (i + 1), K)
    /\ (a = Example /\ K = ExampleK /\ pc \in {"join", "sum", "done"}) =>
          [i \in 1..Len(th) |-> <<th[i].L, th[i].R, th[i].R - th[i].L>>]
              = <<<<0, 2, 2>>, <<2, 5, 3>>, <<5, 8, 3>>>>

C13_Witness ==
    /\ pc = "done"
    /\ Len(a) = 8
    /\ K = 3
    /\ th[2].L = 2
    /\ th[2].R = 5
    /\ th[3].R = 8

\* ------------------------------ claims on a failure inside the spawn loop
\* An invocation that got past the spawn loop with fewer than K workers.
LeftSpawnLoopShort ==
    /\ ~Degenerate(K)
    /\ pc \notin {"call", "spawn"}
    /\ Len(th) < K

\* C17: when the creation of worker k fails, the invocation is left from
\* inside the spawn loop and that is the only way of leaving the loop with
\* fewer than K workers: the join loop was never entered, none of the
\* workers 0..k-1 started before was joined, nothing was summed or
\* returned, and the started workers may still be running at that point.
C17_FailureSkipsJoin ==
    /\ LeftSpawnLoopShort => pc = "terminated"
    /\ pc = "terminated" =>
          /\ k < K
          /\ Len(th) = k
          /\ idx = 0
          /\ \A i \in 1..Len(th) : ~th[i].joined
          /\ sum = 0
          /\ result = 0

C17_Witness ==
    /\ pc = "terminated"
    /\ k >= 2
    /\ th[1].st = "running"
    /\ th[2].st = "finished"
    /\ ~th[1].joined
    /\ ~th[2].joined

\* ------------------------------------------------- claims on the balance
\* The sizes of the ranges the started workers hold.
ChunkSizes == [i \in 1..Len(th) |-> th[i].R - th[i].L]

\* C18: with K >= 2 and all K workers started, every chunk size is
\* floor(N/K) or ceil(N/K), any two sizes differ by at most 1, and when
\* K > N exactly N chunks have size 1 and the other K - N are empty.
C18_PartitionBalanced ==
    (K >= 2 /\ pc \in {"join", "sum", "done"}) =>
        LET size == ChunkSizes
            lo == CHOOSE x \in 0..Len(a) : IsFloor(x, Len(a), K)
            hi == CHOOSE x \in 0..Len(a) : IsFloor(x, Len(a) + K - 1, K)
        IN  /\ Len(size) = K
            /\ \A i \in 1..K : size[i] \in {lo, hi}
            /\ \A i, e \in 1..K :
                  size[i] - size[e] \in {0 - 1, 0, 1}
            /\ K > Len(a) =>
                  /\ Cardinality({i \in 1..K : size[i] = 1}) = Len(a)
                  /\ Cardinality({i \in 1..K : size[i] = 0}) = K - Len(a)

C18_Witness ==
    /\ pc = "join"
    /\ K = 4
    /\ Len(a) = 2
    /\ ChunkSizes = <<0, 1, 0, 1>>

\* ------------------------------------- claims on the calls of one iteration
\* The positions in calls of the invocations made for candidate c: the
\* call of line 151, and the calls measure made.
FirstAt(c) == {j \in 1..Len(calls) : calls[j].fn = "my_parallel_cnt" /\ calls[j].K = c}

TimedAt(c) == {j \in 1..Len(calls) : calls[j].fn = "timed" /\ calls[j].K = c}

\* C14: for each K whose iteration is over, my_parallel_cnt was invoked
\* exactly 1 + 7 = 8 times: once first, then 7 times inside measure; the
\* ERROR line for K is printed exactly when the result of the first
\* invocation differs from the baseline, whatever the 7 timed invocations
\* returned. While an iteration runs the first call comes before the
\* timed ones and at most 7 timed calls were made.
C14_OnePlusRepeatsCalls ==
    /\ \A j \in 1..ki :
          /\ Cardinality(FirstAt(Ks[j])) = 1
          /\ Cardinality(TimedAt(Ks[j])) = 7
          /\ Cardinality(FirstAt(Ks[j]) \cup TimedAt(Ks[j])) = 8
          /\ \A f \in FirstAt(Ks[j]) :
                /\ \A e \in TimedAt(Ks[j]) : f < e
                /\ (calls[f].res # res_seq)
                      <=> (\E e \in 1..Len(out) :
                              out[e].kind = "ERROR" /\ out[e].K = Ks[j])
          /\ Cardinality({e \in 1..Len(out) : out[e].kind = "K" /\ out[e].K = Ks[j]}) = 1
    /\ mpc = "measure" =>
          /\ Cardinality(FirstAt(Ks[ki + 1])) = 1
          /\ Cardinality(TimedAt(Ks[ki + 1])) = fncalls
          /\ fncalls <= 7
          /\ \A f \in FirstAt(Ks[ki + 1]), e \in TimedAt(Ks[ki + 1]) : f < e

C14_Witness ==
    /\ mpc = "sweep"
    /\ ki = 2
    /\ \A f \in FirstAt(2) : calls[f].res = res_seq
    /\ \A e \in TimedAt(2) : calls[e].res # res_seq
    /\ \A f \in FirstAt(1) : calls[f].res # res_seq
    /\ \A e \in TimedAt(1) : calls[e].res = res_seq
    /\ LinesOf("ERROR") = <<Line("ERROR", 1, 0)>>
    /\ Len(LinesOf("K")) = 2

\* ------------------------------------ claims on the best K and the check
\* C16: the best K is tracked without regard to the correctness check: a K
\* whose result differed from the baseline, and for which ERROR was
\* printed, is the best K whenever its time is strictly below the time of
\* every other K evaluated; and at every point of the sweep bestK and
\* bestT are the fold over all evaluated K, mismatching ones included.
C16_BestIgnoresMismatch ==
    LET made == CallsOf("my_parallel_cnt")
        obs == Observations
    IN  mpc \in {"sweep", "done"} =>
            /\ Len(obs) = ki
            /\ \A j \in 1..ki :
                  (/\ made[j].res # res_seq
                   /\ \A e \in (1..ki) \ {j} : obs[j][2] < obs[e][2])
                     => /\ bestK = Ks[j]
                        /\ bestT = obs[j][2]
                        /\ \E e \in 1..Len(out) :
                              out[e].kind = "ERROR" /\ out[e].K = bestK
            /\ (ki >= 1) => \E j \in 1..ki : obs[j] = <<bestK, bestT>>

C16_Witness ==
    /\ mpc = "done"
    /\ bestK = 4
    /\ \E e \in 1..Len(out) : out[e].kind = "ERROR" /\ out[e].K = 4
    /\ \A j \in 1..Len(Observations) :
          Observations[j][1] # 4 => Observations[j][2] > bestT
    /\ CallsOf("my_parallel_cnt")[1].res = res_seq
    /\ Len(LinesOf("ERROR")) = 1
    /\ LinesOf("BEST") = <<Line("BEST", 4, bestT)>>

\* -------------------------------------------------- claims on termination
\* The caller waits in the join loop for a worker that has not finished.
BlockedAtJoin ==
    /\ pc = "join"
    /\ idx < Len(th)
    /\ th[idx + 1].st = "running"

====
